---- MODULE Spec2Model ----
(***************************************************************************)
(* fitmerge: a model of merge_rides.py (decode FIT files in parallel,      *)
(* concatenate, sort, drop duplicate timestamps, simplify, save) and of    *)
(* visualize_ride.py (cumulative distance, elevation chart downsampling,   *)
(* day segmentation).                                                      *)
(***************************************************************************)
EXTENDS Integers, Sequences, FiniteSets, TLC

(***************************************************************************)
(* Bounds of the model.                                                    *)
(***************************************************************************)
\* number of .fit files in the input folder (at most)
NumFiles == 2
\* number of frames over all the files together (at most)
MaxFrames == 3
\* The code only compares timestamps, so MaxFrames different ones are enough.
Timestamps == 1..MaxFrames
\* number of points of the GPX track that visualize_ride.py reads (at most)
MaxPoints == 4
\* number of points of the long tracks, whose chart is downsampled (at most)
MaxLen == 403

(***************************************************************************)
(* Constants of the program.                                               *)
(***************************************************************************)
GAP_THRESHOLD_HOURS == 5
CHART_POINTS_COUNT == 400
\* len(RED_HUES)
NumHues == 12
\* significant bits of a Python float (an IEEE 754 double)
MantissaBits == 53

VARIABLES
    \* ---- merge_rides.py ----
    files,          \* the .fit files, in os.listdir order
    wstate,         \* per file: "submitted" | "done" (its pool worker)
    results,        \* per file: what its worker returned
    finished,       \* file indices in the order their workers completed
    all_data,       \* main(): the concatenated samples
    df,             \* main(): the DataFrame after sort_values/drop_duplicates
    gpx,            \* main(): the points of the GPX track segment
    output,         \* the points written to OUTPUT_FILE
    msg,            \* main(): the last line it printed
    pc,             \* main(): where it is
    \* ---- visualize_ride.py ----
    track,          \* the points of the GPX file read, in file order
    points,         \* process_gpx: the map points
    total_dist,     \* process_gpx: the running cumulative distance
    prev_point,     \* process_gpx: <<>> for None, else <<the previous point>>
    elevation_profile,  \* process_gpx: the chart series
    downsampled,    \* process_gpx: the downsampled chart series
    current_segment,    \* main(): the locations of the segment being built
    segment_idx,    \* main(): the number of segments drawn so far
    scan_i,         \* main(): the scan's index into points (1-based here)
    polylines,      \* the day polylines added to the map, in order
    jumps,          \* the dashed jump lines added to the map, in order
    days,           \* stats['days'], <<>> before it is set
    vpc             \* visualize_ride: where it is

mergeVars == <<files, wstate, results, finished, all_data, df, gpx, output, msg, pc>>

vizVars == <<track, points, total_dist, prev_point, elevation_profile, downsampled,
             current_segment, segment_idx, scan_i, polylines, jumps, days, vpc>>

vars == <<mergeVars, vizVars>>

(***************************************************************************)
(* Helpers on sequences.                                                   *)
(***************************************************************************)
\* the elements of s at the indices in keep, in order, from index i on
RECURSIVE SelectIdx(_, _, _)
SelectIdx(s, keep, i) ==
    IF i > Len(s) THEN <<>>
    ELSE (IF i \in keep THEN <<s[i]>> ELSE <<>>) \o SelectIdx(s, keep, i + 1)

\* s[order[1]] \o s[order[2]] \o ... for a sequence s of sequences
RECURSIVE ConcatBy(_, _)
ConcatBy(s, order) ==
    IF order = <<>> THEN <<>>
    ELSE s[Head(order)] \o ConcatBy(s, Tail(order))

Injective(s) == \A i, j \in 1..Len(s) : s[i] = s[j] => i = j

(***************************************************************************)
(* The input: FIT files.  A frame is a 'record' data message with position *)
(* and timestamp ("record"), a frame that is skipped (not a record, or a   *)
(* record without position_lat/position_long: "skip"), or a record whose   *)
(* conversion raises inside the inner try ("bad").  A file is corrupt when *)
(* the reader raises after its listed frames were read.  position_lat      *)
(* stands for the whole payload of the record (lat, lon, ele, hr, cad,     *)
(* temp); every record of the input carries a different one, so that two   *)
(* samples with the same timestamp can be told apart.                      *)
(***************************************************************************)
FrameKinds ==
    [kind : {"record"}, timestamp : Timestamps]
        \cup [kind : {"skip", "bad"}, timestamp : {0}]

\* The timestamps in use are 1..k for some k: any input is like such a one
\* as far as the order and the equality of its timestamps go.
Dense(flat) ==
    LET used == {flat[k].timestamp : k \in {j \in 1..Len(flat) : flat[j].kind = "record"}}
    IN  used = 1..Cardinality(used)

NonDecreasing(owner) ==
    \A a, b \in 1..Len(owner) : a < b => owner[a] <= owner[b]

\* the frames of file f, when the frames of all files are laid out in a row
\* (flat) and owner[k] is the file that holds frame k
FramesOf(flat, owner, f) ==
    SelectIdx([k \in 1..Len(flat) |->
                  [kind |-> flat[k].kind,
                   timestamp |-> flat[k].timestamp,
                   position_lat |-> k]],
              {k \in 1..Len(flat) : owner[k] = f}, 1)

(***************************************************************************)
(* extract_fit_data: the frames of one file, decoded in a worker process.  *)
(***************************************************************************)
\* the loop body, lines 34-68: points after the frames from index k on
RECURSIVE DecodeFrames(_, _, _)
DecodeFrames(frames, k, pts) ==
    IF k > Len(frames) THEN pts
    ELSE LET frame == frames[k] IN
         IF frame.kind = "record"
         THEN DecodeFrames(frames, k + 1,
                  Append(pts, [timestamp |-> frame.timestamp,
                                  lat |-> frame.position_lat]))
         ELSE DecodeFrames(frames, k + 1, pts)   \* continue (39, 47, 68)

\* a plausible slip: the outer handler returns the points decoded so far
extract_fit_data_partial(file) == DecodeFrames(file.frames, 1, <<>>)

extract_fit_data(file) ==
    IF file.corrupt THEN <<>>                         \* except Exception: return []
    ELSE DecodeFrames(file.frames, 1, <<>>)

(***************************************************************************)
(* executor.map: the results in the order of the files, whatever the order *)
(* in which the workers completed.                                         *)
(***************************************************************************)
\* a plausible slip: results taken as they complete (as_completed)
executor_as_completed(res, done_order) == ConcatBy(res, done_order)

executor_map(res, done_order) ==
    ConcatBy(res, [f \in 1..Len(res) |-> f])

(***************************************************************************)
(* df.sort_values(by='timestamp') with the default kind='quicksort', which *)
(* is not stable: rows with equal timestamps come out in any order.        *)
(***************************************************************************)
Perms(n) == {p \in [1..n -> 1..n] : Injective(p)}

sort_values(data) ==
    {[i \in 1..Len(data) |-> data[p[i]]] :
        p \in {q \in Perms(Len(data)) :
                 \A i, j \in 1..Len(data) :
                    i < j => data[q[i]].timestamp <= data[q[j]].timestamp}}

\* a plausible slip: no duplicate is dropped
drop_duplicates_none(s) == s

\* df.drop_duplicates(subset=['timestamp']), keep='first'
drop_duplicates(s) ==
    SelectIdx(s, {i \in 1..Len(s) :
                    \A j \in 1..(i - 1) : s[j].timestamp # s[i].timestamp}, 1)

(***************************************************************************)
(* create_gpx_with_extensions: one GPXTrackPoint per row, in row order.    *)
(***************************************************************************)
\* a plausible slip: the loop misses the last row
create_gpx_without_last(rows) ==
    [i \in 1..(Len(rows) - 1) |->
        [time |-> rows[i].timestamp, latitude |-> rows[i].lat]]

create_gpx_with_extensions(rows) ==
    [i \in 1..Len(rows) |->
        [time |-> rows[i].timestamp, latitude |-> rows[i].lat]]

(***************************************************************************)
(* gpx.simplify(SIMPLIFICATION_MARGIN): the library's Ramer-Douglas-       *)
(* Peucker.  Fewer than 3 points are returned as they are; otherwise the   *)
(* two end points are kept and, by the geometry (which is not modelled),   *)
(* any set of the points in between.                                       *)
(***************************************************************************)
SimplifyOutcomes(pts) ==
    IF Len(pts) < 3 THEN {pts}
    ELSE {SelectIdx(pts, K \cup {1, Len(pts)}, 1) :
            K \in SUBSET (2..(Len(pts) - 1))}

(***************************************************************************)
(* merge_rides.main                                                        *)
(***************************************************************************)
VizIdle ==
    /\ track = <<>>
    /\ points = <<>>
    /\ total_dist = 0
    /\ prev_point = <<>>
    /\ elevation_profile = <<>>
    /\ downsampled = <<>>
    /\ current_segment = <<>>
    /\ segment_idx = 0
    /\ scan_i = 0
    /\ polylines = <<>>
    /\ jumps = <<>>
    /\ days = <<>>
    /\ vpc = "idle"

InitMerge ==
    /\ \E n \in 0..NumFiles, m \in 0..MaxFrames :
          \E flat \in [1..m -> FrameKinds], owner \in [1..m -> 1..n],
             corrupt \in [1..n -> BOOLEAN] :
              /\ Dense(flat)
              /\ NonDecreasing(owner)
              /\ files = [f \in 1..n |->
                            [frames |-> FramesOf(flat, owner, f),
                             corrupt |-> corrupt[f]]]
    /\ wstate = [f \in 1..Len(files) |-> "submitted"]
    /\ results = [f \in 1..Len(files) |-> <<>>]
    /\ finished = <<>>
    /\ all_data = <<>>
    /\ df = <<>>
    /\ gpx = <<>>
    /\ output = <<>>
    /\ msg = ""
    /\ pc = "start"
    /\ VizIdle

\* lines 126-131
ListFiles ==
    /\ pc = "start"
    /\ IF Len(files) = 0
       THEN msg' = "No .fit files found." /\ pc' = "no_files"
       ELSE msg' = "Found files. Starting parallel processing..." /\ pc' = "map"
    /\ UNCHANGED <<files, wstate, results, finished, all_data, df, gpx, output, vizVars>>

\* one worker of the pool runs extract_fit_data on its file and returns
Worker(f) ==
    /\ pc = "map"
    /\ wstate[f] = "submitted"
    /\ results' = [results EXCEPT ![f] = extract_fit_data(files[f])]
    /\ wstate' = [wstate EXCEPT ![f] = "done"]
    /\ finished' = Append(finished, f)
    /\ UNCHANGED <<files, all_data, df, gpx, output, msg, pc, vizVars>>

\* lines 133-141: list(executor.map(...)) returns once every worker has
Join ==
    /\ pc = "map"
    /\ \A f \in 1..Len(files) : wstate[f] = "done"
    /\ all_data' = executor_map(results, finished)
    /\ IF all_data' = <<>>
       THEN msg' = "No valid data extracted." /\ pc' = "no_data"
       ELSE msg' = "Sorting and merging timestamps..." /\ pc' = "sort"
    /\ UNCHANGED <<files, wstate, results, finished, df, gpx, output, vizVars>>

\* lines 144-148
SortAndDedup ==
    /\ pc = "sort"
    /\ \E sorted \in sort_values(all_data) : df' = drop_duplicates(sorted)
    /\ msg' = "Total merged points"
    /\ pc' = "merged"
    /\ UNCHANGED <<files, wstate, results, finished, all_data, gpx, output, vizVars>>

\* lines 150-153
CreateGpx ==
    /\ pc = "merged"
    /\ gpx' = create_gpx_with_extensions(df)
    /\ msg' = "Simplifying track..."
    /\ pc' = "simplify"
    /\ UNCHANGED <<files, wstate, results, finished, all_data, df, output, vizVars>>

\* lines 155-159: gpx.simplify returns
SimplifyOk ==
    /\ pc = "simplify"
    /\ gpx' \in SimplifyOutcomes(gpx)
    /\ msg' = "Points reduced"
    /\ pc' = "save"
    /\ UNCHANGED <<files, wstate, results, finished, all_data, df, output, vizVars>>

\* lines 160-161: gpx.simplify raises, the track is as it was
SimplifyRaises ==
    /\ pc = "simplify"
    /\ msg' = "Simplification error"
    /\ pc' = "save"
    /\ UNCHANGED <<files, wstate, results, finished, all_data, df, gpx, output, vizVars>>

\* lines 163-167
Save ==
    /\ pc = "save"
    /\ output' = gpx
    /\ msg' = "Success!"
    /\ pc' = "success"
    /\ UNCHANGED <<files, wstate, results, finished, all_data, df, gpx, vizVars>>

NextMerge ==
    \/ ListFiles
    \/ \E f \in 1..Len(files) : Worker(f)
    \/ Join
    \/ SortAndDedup
    \/ CreateGpx
    \/ SimplifyOk
    \/ SimplifyRaises
    \/ Save

Spec == InitMerge /\ [][NextMerge]_vars

(***************************************************************************)
(* visualize_ride.py.  Times are in hours, locations are places on a line  *)
(* in units of 0.01 km, so that haversine is the distance on that line and *)
(* distances are in 0.01 km; elevations are in units of 0.1 m.  ele is     *)
(* <<>> for None and <<e>> for the elevation e.                            *)
(***************************************************************************)
Abs(a) == IF a < 0 THEN -a ELSE a

haversine(p, q) == Abs(q.loc - p.loc)

\* round(x, 1) of a distance in km, x in units of 0.01: half to even
round1(x) ==
    LET q == x \div 10
        r == x % 10
    IN  IF r < 5 THEN 10 * q
        ELSE IF r > 5 THEN 10 * (q + 1)
        ELSE IF q % 2 = 0 THEN 10 * q ELSE 10 * (q + 1)

\* int(y) of an elevation in m, y in units of 0.1: truncation towards zero
int_(y) == IF y >= 0 THEN 10 * (y \div 10) ELSE -(10 * ((-y) \div 10))

(***************************************************************************)
(* Python floats, as far as line 174 (step = len / CHART_POINTS_COUNT) and *)
(* line 177 (int(i * step)) need them: a positive float is a sequence m of *)
(* binary digits, most significant first, and an exponent e, and stands    *)
(* for the number m * 2^e; zero has m = <<>>.  Every operation rounds to   *)
(* MantissaBits digits, to nearest, ties to even.                          *)
(***************************************************************************)
\* the binary digits of n >= 0, most significant first (none for 0)
RECURSIVE Bits(_)
Bits(n) == IF n = 0 THEN <<>> ELSE Append(Bits(n \div 2), n % 2)

\* the binary digits of n in exactly w places
BitsW(n, w) == [j \in 1..w |-> (n \div 2^(w - j)) % 2]

\* the number a digit sequence of fewer than 31 digits stands for
RECURSIVE BitsValue(_)
BitsValue(b) ==
    IF b = <<>> THEN 0
    ELSE IF Len(b) = 1 THEN b[1]
    ELSE LET h == Len(b) \div 2
         IN  BitsValue(SubSeq(b, 1, h)) * 2^(Len(b) - h)
                + BitsValue(SubSeq(b, h + 1, Len(b)))

\* b + 1
Increment(b) ==
    LET zeros == {j \in 1..Len(b) : b[j] = 0}
    IN  IF zeros = {} THEN <<1>> \o [j \in 1..Len(b) |-> 0]
        ELSE LET z == CHOOSE j \in zeros : \A l \in zeros : l <= j
             IN  [j \in 1..Len(b) |-> IF j < z THEN b[j] ELSE IF j = z THEN 1 ELSE 0]

\* [m, e] with m cut back to MantissaBits digits when rounding carried over
Normalized(m, e) ==
    IF Len(m) > MantissaBits
    THEN [m |-> SubSeq(m, 1, MantissaBits), e |-> e + (Len(m) - MantissaBits)]
    ELSE [m |-> m, e |-> e]

\* 2^j modulo d
RECURSIVE Pow2Mod(_, _)
Pow2Mod(j, d) ==
    IF j = 0 THEN 1 % d
    ELSE LET h == Pow2Mod(j \div 2, d)
         IN  (((h * h) % d) * (IF j % 2 = 1 THEN 2 ELSE 1)) % d

\* what is left of r / d, for 0 <= r < d, after j binary digits of the quotient
RemAfter(r, d, j) == (r * Pow2Mod(j, d)) % d

\* the n binary digits after the point of r / d, for 0 <= r < d
FracBits(r, d, n) ==
    [j \in 1..n |-> IF 2 * RemAfter(r, d, j - 1) >= d THEN 1 ELSE 0]

\* the float n / d, for integers n >= d > 0 below 2^15
FloatDiv(n, d) ==
    LET whole == Bits(n \div d)
        nfrac == MantissaBits - Len(whole)
        m     == whole \o FracBits(n % d, d, nfrac)
        rem   == RemAfter(n % d, d, nfrac)
        up    == \/ 2 * rem > d
                 \/ 2 * rem = d /\ m[Len(m)] = 1
    IN  Normalized(IF up THEN Increment(m) ELSE m, -nfrac)

\* the digits of factor * b + carry, for a digit sequence b and a factor
\* below 2^10, taken 20 digits of b at a time from the right
RECURSIVE MulBits(_, _, _)
MulBits(b, factor, carry) ==
    IF Len(b) <= 20 THEN Bits(BitsValue(b) * factor + carry)
    ELSE LET t == BitsValue(SubSeq(b, Len(b) - 19, Len(b))) * factor + carry
         IN  MulBits(SubSeq(b, 1, Len(b) - 20), factor, t \div 2^20)
                \o BitsW(t % 2^20, 20)

\* the float factor * x, for an integer 0 <= factor < 2^10 and a float x
FloatMulInt(factor, x) ==
    IF factor = 0 \/ x.m = <<>> THEN [m |-> <<>>, e |-> 0]
    ELSE LET p == MulBits(x.m, factor, 0)
             d == Len(p) - MantissaBits
         IN  IF d <= 0 THEN [m |-> p, e |-> x.e]
             ELSE LET keep   == SubSeq(p, 1, MantissaBits)
                      guard  == p[MantissaBits + 1]
                      sticky == \E j \in (MantissaBits + 2)..Len(p) : p[j] = 1
                      up     == guard = 1 /\ (sticky \/ keep[MantissaBits] = 1)
                  IN  Normalized(IF up THEN Increment(keep) ELSE keep, x.e + d)

\* int(x) for a float x >= 0 below 2^31
FloatInt(x) ==
    IF x.m = <<>> THEN 0
    ELSE IF x.e >= 0 THEN BitsValue(x.m \o [j \in 1..x.e |-> 0])
    ELSE IF -x.e >= Len(x.m) THEN 0
    ELSE BitsValue(SubSeq(x.m, 1, Len(x.m) + x.e))

\* a plausible slip: integer arithmetic, which is exact where the floats are not
chart_index_exact(ix, len) == (ix * len) \div CHART_POINTS_COUNT

\* lines 174 and 177: idx = int(i * step) with step = len / CHART_POINTS_COUNT
chart_index(ix, len) == FloatInt(FloatMulInt(ix, FloatDiv(len, CHART_POINTS_COUNT)))

\* line 180
chart_item(item) == [x |-> round1(item.x), y |-> int_(item.y)]

(***************************************************************************)
(* process_gpx                                                             *)
(***************************************************************************)
MergeIdle ==
    /\ files = <<>>
    /\ wstate = <<>>
    /\ results = <<>>
    /\ finished = <<>>
    /\ all_data = <<>>
    /\ df = <<>>
    /\ gpx = <<>>
    /\ output = <<>>
    /\ msg = ""
    /\ pc = "idle"

\* lines 143-147, with the GPX file parsed (main, 203-205)
VizStart ==
    /\ points = <<>>
    /\ total_dist = 0
    /\ prev_point = <<>>
    /\ elevation_profile = <<>>
    /\ downsampled = <<>>
    /\ current_segment = <<>>
    /\ segment_idx = 0
    /\ scan_i = 0
    /\ polylines = <<>>
    /\ jumps = <<>>
    /\ days = <<>>
    /\ vpc = "process"

\* lines 152-170: one round of the loop over the points
ProcessPoint ==
    /\ vpc = "process"
    /\ Len(points) < Len(track)
    /\ LET p == track[Len(points) + 1]
           d == IF prev_point # <<>>
                THEN total_dist + haversine(prev_point[1], p)
                ELSE total_dist
       IN  /\ points' = Append(points, [loc |-> p.loc, time |-> p.time, ele |-> p.ele])
           /\ total_dist' = d
           /\ elevation_profile' =
                 IF p.ele # <<>>
                 THEN Append(elevation_profile, [x |-> d, y |-> p.ele[1]])
                 ELSE elevation_profile
           /\ prev_point' = <<p>>
    /\ UNCHANGED <<track, downsampled, current_segment, segment_idx, scan_i,
                   polylines, jumps, days, vpc, mergeVars>>

\* line 173, the condition false, and lines 183-194
KeepProfile ==
    /\ vpc = "process"
    /\ Len(points) = Len(track)
    /\ ~(Len(elevation_profile) > CHART_POINTS_COUNT)
    /\ vpc' = "returned"
    /\ UNCHANGED <<track, points, total_dist, prev_point, elevation_profile,
                   downsampled, current_segment, segment_idx, scan_i, polylines,
                   jumps, days, mergeVars>>

\* lines 173-180: the downsampled list is built
Downsample ==
    /\ vpc = "process"
    /\ Len(points) = Len(track)
    /\ Len(elevation_profile) > CHART_POINTS_COUNT
    /\ downsampled' =
          [k \in 1..CHART_POINTS_COUNT |->
              chart_item(elevation_profile[
                  chart_index(k - 1, Len(elevation_profile)) + 1])]
    /\ vpc' = "downsampled"
    /\ UNCHANGED <<track, points, total_dist, prev_point, elevation_profile,
                   current_segment, segment_idx, scan_i, polylines, jumps, days,
                   mergeVars>>

\* line 181 and lines 183-194
ReturnDownsampled ==
    /\ vpc = "downsampled"
    /\ elevation_profile' = downsampled
    /\ vpc' = "returned"
    /\ UNCHANGED <<track, points, total_dist, prev_point, downsampled,
                   current_segment, segment_idx, scan_i, polylines, jumps, days,
                   mergeVars>>

(***************************************************************************)
(* visualize_ride.main: the segments                                       *)
(***************************************************************************)
\* lines 240-243
should_break(pts, at) ==
    /\ at # Len(pts)
    /\ pts[at + 1].time - pts[at].time > GAP_THRESHOLD_HOURS

\* a plausible slip: a segment of a single point is drawn too
closes_segment_any(brk, is_last, seg) == (brk \/ is_last) /\ Len(seg) > 0

\* line 245
closes_segment(brk, is_last, seg) == (brk \/ is_last) /\ Len(seg) > 1

\* lines 209-211
NoPoints ==
    /\ vpc = "returned"
    /\ points = <<>>
    /\ vpc' = "no_data"
    /\ UNCHANGED <<track, points, total_dist, prev_point, elevation_profile,
                   downsampled, current_segment, segment_idx, scan_i, polylines,
                   jumps, days, mergeVars>>

\* lines 213-233
StartScan ==
    /\ vpc = "returned"
    /\ points # <<>>
    /\ current_segment' = <<>>
    /\ segment_idx' = 0
    /\ scan_i' = 1
    /\ vpc' = "scan"
    /\ UNCHANGED <<track, points, total_dist, prev_point, elevation_profile,
                   downsampled, polylines, jumps, days, mergeVars>>

\* lines 235-255: one round of the loop over the points
ScanPoint ==
    /\ vpc = "scan"
    /\ scan_i <= Len(points)
    /\ LET seg     == Append(current_segment, points[scan_i].loc)
           is_last == scan_i = Len(points)
           brk     == should_break(points, scan_i)
       IN  IF closes_segment(brk, is_last, seg)
           THEN /\ polylines' =
                      Append(polylines,
                             [locs  |-> seg,
                              color |-> segment_idx % NumHues,
                              day   |-> segment_idx + 1,
                              start |-> scan_i - Len(seg) + 1])
                /\ jumps' = IF brk
                            THEN Append(jumps, <<points[scan_i].loc,
                                                 points[scan_i + 1].loc>>)
                            ELSE jumps
                /\ current_segment' = <<>>
                /\ segment_idx' = segment_idx + 1
           ELSE /\ current_segment' = seg
                /\ UNCHANGED <<polylines, jumps, segment_idx>>
    /\ scan_i' = scan_i + 1
    /\ UNCHANGED <<track, points, total_dist, prev_point, elevation_profile,
                   downsampled, days, vpc, mergeVars>>

\* lines 257-270
Finish ==
    /\ vpc = "scan"
    /\ scan_i > Len(points)
    /\ days' = <<segment_idx>>
    /\ vpc' = "done"
    /\ UNCHANGED <<track, points, total_dist, prev_point, elevation_profile,
                   downsampled, current_segment, segment_idx, scan_i, polylines,
                   jumps, mergeVars>>

(***************************************************************************)
(* The tracks read by visualize_ride.py: strictly increasing times, as     *)
(* merge_rides.py writes them.  The gap to the next point is below the     *)
(* threshold, the threshold itself, or above it.                           *)
(***************************************************************************)
Gaps == {1, GAP_THRESHOLD_HOURS, GAP_THRESHOLD_HOURS + 1}

RECURSIVE TimeAt(_, _)
TimeAt(gaps, k) == IF k = 1 THEN 0 ELSE TimeAt(gaps, k - 1) + gaps[k - 1]

InitViz ==
    /\ \E n \in 0..MaxPoints :
          \E gaps \in [1..(n - 1) -> Gaps], locs \in [1..n -> {0, 1}],
             eles \in [1..n -> {<<>>, <<1005>>}] :
              track = [k \in 1..n |->
                          [time |-> TimeAt(gaps, k), loc |-> locs[k], ele |-> eles[k]]]
    /\ VizStart
    /\ MergeIdle

NextViz ==
    \/ ProcessPoint
    \/ KeepProfile
    \/ NoPoints
    \/ StartScan
    \/ ScanPoint
    \/ Finish

SpecViz == InitViz /\ [][NextViz]_vars

(***************************************************************************)
(* Long tracks, for the chart: a point an hour, each 0.01 km from the one  *)
(* before, the k-th at k m and a half; the first with or without elevation.*)
(***************************************************************************)
InitChart ==
    /\ \E n \in (CHART_POINTS_COUNT - 1)..MaxLen, first \in {<<>>, <<5>>} :
          track = [k \in 1..n |->
                      [time |-> k, loc |-> k % 2,
                       ele |-> IF k = 1 THEN first ELSE <<10 * k + 5>>]]
    /\ VizStart
    /\ MergeIdle

NextChart ==
    \/ ProcessPoint
    \/ KeepProfile
    \/ Downsample
    \/ ReturnDownsampled

SpecChart == InitChart /\ [][NextChart]_vars

(***************************************************************************)
(* Properties of visualize_ride.py                                         *)
(***************************************************************************)
\* the index in points of the last point of a polyline
LastOf(line) == line.start + Len(line.locs) - 1

GapAfter(pts, a) == pts[a + 1].time - pts[a].time

\* C3: between the last point of a drawn segment and the first point of the
\* next the gap exceeds the threshold, and inside a drawn segment no gap
\* between two consecutive points does.
C3_SegmentationGaps ==
    vpc = "done" =>
        /\ \A s \in 1..(Len(polylines) - 1) :
              points[polylines[s + 1].start].time
                  - points[LastOf(polylines[s])].time > GAP_THRESHOLD_HOURS
        /\ \A s \in 1..Len(polylines) :
              \A a \in polylines[s].start..(LastOf(polylines[s]) - 1) :
                  GapAfter(points, a) <= GAP_THRESHOLD_HOURS

\* the distance over the consecutive pairs up to point a, the pairs across a
\* recording break left out
RECURSIVE TravelledDistance(_, _)
TravelledDistance(pts, a) ==
    IF a <= 1 THEN 0
    ELSE TravelledDistance(pts, a - 1)
            + (IF GapAfter(pts, a - 1) > GAP_THRESHOLD_HOURS THEN 0
               ELSE haversine(pts[a - 1], pts[a]))

\* C6: the cumulative distance of process_gpx leaves out the pairs of
\* consecutive points whose gap exceeds the threshold.
C6_DistanceExcludesBreaks ==
    vpc \in {"returned", "scan", "done"} =>
        total_dist = TravelledDistance(points, Len(points))

\* C7: the chart has at most CHART_POINTS_COUNT points; a longer series is
\* cut to exactly that many, the i-th being the element at index
\* floor(i * len / CHART_POINTS_COUNT) of the series, so that the indices
\* picked grow strictly and the distance does not shrink along the chart.
C7_StridedProfile ==
    /\ vpc = "returned" => Len(elevation_profile) <= CHART_POINTS_COUNT
    /\ vpc = "downsampled" =>
          /\ Len(downsampled) = CHART_POINTS_COUNT
          /\ \A pos \in 0..(CHART_POINTS_COUNT - 1) :
                downsampled[pos + 1] =
                    chart_item(elevation_profile[
                        (pos * Len(elevation_profile)) \div CHART_POINTS_COUNT + 1])
          /\ \A pos \in 1..(CHART_POINTS_COUNT - 1) :
                downsampled[pos].x <= downsampled[pos + 1].x

\* C9: the segments drawn are numbered 0, 1, ... in the order of the track
\* without a number left out or used twice, each has two points or more, and
\* the days of the stats are their number.
C9_DenseSegmentIndices ==
    /\ segment_idx = Len(polylines)
    /\ \A s \in 1..Len(polylines) :
          /\ polylines[s].day = s
          /\ polylines[s].color = (s - 1) % NumHues
          /\ Len(polylines[s].locs) >= 2
          /\ polylines[s].start >= 1
          /\ LastOf(polylines[s]) <= Len(points)
          /\ \A a \in 1..Len(polylines[s].locs) :
                polylines[s].locs[a] = points[polylines[s].start + a - 1].loc
    /\ \A s \in 1..(Len(polylines) - 1) :
          LastOf(polylines[s]) < polylines[s + 1].start
    /\ vpc = "done" => days = <<Len(polylines)>>

\* three points, the third beyond the threshold: one segment, of the first two
C9_Witness ==
    /\ vpc = "done"
    /\ Len(points) = 3
    /\ GapAfter(points, 1) <= GAP_THRESHOLD_HOURS
    /\ GapAfter(points, 2) > GAP_THRESHOLD_HOURS
    /\ days = <<1>>
    /\ Len(polylines) = 1
    /\ polylines[1].locs = <<points[1].loc, points[2].loc>>

(***************************************************************************)
(* Properties of merge_rides.py                                            *)
(***************************************************************************)
AfterMerge == pc \in {"merged", "simplify", "save", "success"}

AfterJoin == pc \in {"no_data", "sort"} \/ AfterMerge

RECURSIVE SumLen(_)
SumLen(res) == IF res = <<>> THEN 0 ELSE Len(Head(res)) + SumLen(Tail(res))

\* C1: the merged track has strictly increasing timestamps, no timestamp
\* twice, and at most as many samples as the sources delivered together.
C1_MergeUniqueness ==
    AfterMerge =>
        /\ \A a \in 1..(Len(df) - 1) : df[a].timestamp < df[a + 1].timestamp
        /\ \A a, b \in 1..Len(df) : df[a].timestamp = df[b].timestamp => a = b
        /\ Len(df) <= SumLen(results)

\* duplicates were delivered and dropped, and a track of two or more is left
C1_Witness ==
    /\ pc = "merged"
    /\ Len(df) >= 2
    /\ Len(df) < Len(all_data)

\* the first sample of the concatenation that carries timestamp t
FirstWith(data, t) ==
    data[CHOOSE a \in 1..Len(data) :
            /\ data[a].timestamp = t
            /\ \A b \in 1..(a - 1) : data[b].timestamp # t]

\* C2: first-source-wins: of the samples that share a timestamp, the merged
\* track keeps the one that comes first in the concatenation of the sources.
C2_FirstSourceWins ==
    AfterMerge =>
        \A a \in 1..Len(df) : df[a] = FirstWith(all_data, df[a].timestamp)

\* C4: a merged track of fewer than 2 samples ends the run as insufficient
\* data: no simplification, nothing written, no success reported.
C4_InsufficientDataIsFatal ==
    (AfterMerge /\ Len(df) < 2) =>
        /\ pc \notin {"simplify", "save", "success"}
        /\ output = <<>>
        /\ msg # "Success!"

\* the samples of the records of a file, read off its frames
RecordSamples(file) ==
    LET recs == SelectSeq(file.frames, LAMBDA fr : fr.kind = "record")
    IN  [k \in 1..Len(recs) |->
            [timestamp |-> recs[k].timestamp, lat |-> recs[k].position_lat]]

\* what the sources that decode deliver, in file order
RECURSIVE DecodableData(_)
DecodableData(fs) ==
    IF fs = <<>> THEN <<>>
    ELSE (IF Head(fs).corrupt THEN <<>> ELSE RecordSamples(Head(fs)))
            \o DecodableData(Tail(fs))

\* C5: a source that fails to decode contributes no sample and the run goes
\* on; a record that fails inside a decodable source drops only that record;
\* the merged track is a merge of what the remaining sources deliver.
C5_FailedSourceContributesNothing ==
    /\ \A f \in 1..Len(files) :
          wstate[f] = "done" =>
              results[f] = IF files[f].corrupt THEN <<>> ELSE RecordSamples(files[f])
    /\ AfterJoin => all_data = DecodableData(files)
    /\ pc = "merged" =>
          df \in {drop_duplicates(s) : s \in sort_values(DecodableData(files))}

\* a corrupt file that held a record, beside a file with a failing record
\* and a good one, merged
C5_Witness ==
    /\ pc = "merged"
    /\ \E f, g \in 1..Len(files) :
          /\ files[f].corrupt
          /\ \E k \in 1..Len(files[f].frames) : files[f].frames[k].kind = "record"
          /\ ~files[g].corrupt
          /\ \E k \in 1..Len(files[g].frames) : files[g].frames[k].kind = "bad"
          /\ Len(results[g]) = 1
    /\ Len(df) = 1

AsSample(p) == [timestamp |-> p.time, lat |-> p.latitude]

IsSubsequence(a, b) ==
    \E K \in SUBSET (1..Len(b)) : SelectIdx(b, K, 1) = a

\* C8: the track written is a subsequence of the merged track that starts
\* with its first sample and ends with its last, whether gpx.simplify
\* returned or raised.
C8_WrittenTrackIsSubsequence ==
    pc = "success" =>
        LET written == [k \in 1..Len(output) |-> AsSample(output[k])]
        IN  /\ IsSubsequence(written, df)
            /\ Len(written) >= 1
            /\ written[1] = df[1]
            /\ written[Len(written)] = df[Len(df)]

\* a track of three samples was simplified to its two end points and written
C8_Witness ==
    /\ pc = "success"
    /\ msg = "Success!"
    /\ Len(df) = 3
    /\ Len(output) = 2

\* C10: the merge starts only when every worker has returned, and what it is
\* handed is the workers' results in file order, whatever the order in which
\* they completed.
C10_FanInJoin ==
    AfterJoin =>
        /\ \A f \in 1..Len(files) : wstate[f] = "done"
        /\ Len(finished) = Len(files)
        /\ all_data = ConcatBy(results, [f \in 1..Len(files) |-> f])
        /\ all_data = DecodableData(files)

\* the second file's worker completed first, and both delivered samples
C10_Witness ==
    /\ pc = "sort"
    /\ Len(finished) = 2
    /\ finished[1] = 2
    /\ results[1] # <<>>
    /\ results[2] # <<>>

====
